---- MODULE Spec2Model ----
(***************************************************************************)
(* The AI service factory of the virtual wardrobe (services/               *)
(* aiServiceFactory.ts), its three backend adapters and the four facade    *)
(* functions, as a state machine.                                          *)
(*                                                                         *)
(* JavaScript is single threaded: a step of the model is the synchronous   *)
(* code an async function runs between two awaits that matter.  A caller   *)
(* is suspended at                                                         *)
(*   "import"      the dynamic import of the configured adapter module,    *)
(*   "probe"       the network round trip of the connectivity test,        *)
(*   "importMock"  the dynamic import of the mock module in the catch      *)
(*                 block of getService,                                    *)
(*   "op"          the adapter operation the facade delegated to.          *)
(* Continuations that touch only the caller's locals (the hop from a       *)
(* settled promise to the awaiting function) are folded into the step that *)
(* settles the promise: they commute with every step of another caller.    *)
(***************************************************************************)
EXTENDS Integers, Sequences, FiniteSets, TLC

\* ---------------------------------------------------------------- bounds
NumCallers == 2
MaxCalls == 2
MaxCloset == 1

Callers == 1..NumCallers

\* ------------------------------------------------------- program values
ServiceTypes == {"gemini-direct", "vertex-ai", "mock"}

\* process.env.AI_SERVICE_TYPE: unset, one of the three kinds, or a string
\* the switch of getService does not know (its default: branch).
EnvServiceTypes == ServiceTypes \cup {"unset", "unknown"}

FacadeFns ==
  {"generateOutfit", "generateAndRecommendOutfit",
   "getStyleRecommendations", "generateClothingItem"}

\* currentService = null
NULL == [kind |-> "null", id |-> 0]

\* AI_SERVICE_TYPE || 'gemini-direct'
ConfiguredService(e) ==
  IF e.AI_SERVICE_TYPE = "unset" THEN "gemini-direct" ELSE e.AI_SERVICE_TYPE

\* The first statement of initializeVertexAI / initializeGeminiDirect: the
\* configuration the adapter needs is missing, the function throws before it
\* imports anything.  initializeMockService has no such check.
ConfigMissing(k, e) ==
  CASE k = "vertex-ai" -> ~e.GOOGLE_CLOUD_PROJECT_ID
    [] k = "gemini-direct" -> ~e.API_KEY /\ ~e.GEMINI_API_KEY
    [] OTHER -> FALSE

\* The module a selection of kind k imports first ('mock' and default: share
\* initializeMockService).
ModuleOf_DefaultDirect(k) ==
  IF k = "vertex-ai" THEN k ELSE "gemini-direct"
ModuleOf(k) ==
  IF k \in {"vertex-ai", "gemini-direct"} THEN k ELSE "mock"

\* Does `await import(...)` of module m resolve?  geminiService.ts throws at
\* its top level when API_KEY is not set; the mock module is a lazily loaded
\* chunk whose load succeeds or fails with the deployment.
ImportSucceeds(m, e, mockLoads) ==
  CASE m = "gemini-direct" -> e.API_KEY
    [] m = "vertex-ai" -> TRUE
    [] OTHER -> mockLoads

\* -------------------------------------------------- outcomes of a call
\* What a promise settles to.  One record shape for every operation:
\*   AIResult {imageBase64, text}, StyleRecommendation[], a base64 string,
\*   void, or a rejection with its message.  A message is the sequence of
\*   its parts, so that `${prefix}: ${error.message}` is concatenation and
\*   message.includes(part) is membership.
AIResult(img, txt) ==
  [tag |-> "AIResult", imageBase64 |-> img, text |-> txt, recs |-> <<>>, err |-> <<>>]
RecList(rs) ==
  [tag |-> "recs", imageBase64 |-> "null", text |-> "null", recs |-> rs, err |-> <<>>]
Base64(b) ==
  [tag |-> "base64", imageBase64 |-> b, text |-> "null", recs |-> <<>>, err |-> <<>>]
Void ==
  [tag |-> "void", imageBase64 |-> "null", text |-> "null", recs |-> <<>>, err |-> <<>>]
Rejected(msg) ==
  [tag |-> "error", imageBase64 |-> "null", text |-> "null", recs |-> <<>>, err |-> msg]
\* JSON.parse gave a value that is returned as it is although it is not a
\* StyleRecommendation[].
Unvalidated ==
  [tag |-> "json", imageBase64 |-> "null", text |-> "null", recs |-> <<>>, err |-> <<>>]
\* {type, status} of getServiceInfo; the two are kept with the call.
ServiceInfo ==
  [tag |-> "info", imageBase64 |-> "null", text |-> "null", recs |-> <<>>, err |-> <<>>]
NoOutcome ==
  [tag |-> "none", imageBase64 |-> "null", text |-> "null", recs |-> <<>>, err |-> <<>>]

\* StyleRecommendation; id 0 stands for an omitted topId / bottomId.
Rec(name, top, bottom) == [styleName |-> name, topId |-> top, bottomId |-> bottom]

\* ------------------------------------------------ what a caller passes
\* A closet is the sequence of its items' types; the item at position i has
\* id i.  The other arguments of the four operations are opaque to the
\* factory and the adapters' control flow.
Closets == UNION {[1..n -> {"TOP", "BOTTOM"}] : n \in 0..MaxCloset}
\* feedback: the like/dislike map a caller of getStyleRecommendations passes
\* as second argument ("map"), or nothing ("undefined").
Requests ==
  {[fn |-> f, closet |-> <<>>, feedback |-> "undefined"] :
     f \in FacadeFns \ {"getStyleRecommendations"}}
    \cup {[fn |-> "getStyleRecommendations", closet |-> cl, feedback |-> fb] :
            cl \in Closets, fb \in {"undefined", "map"}}
NoRequest == [fn |-> "none", closet |-> <<>>, feedback |-> "undefined"]
\* The calls of the facade that type-check: its getStyleRecommendations
\* declares no feedback parameter, only an untyped caller can pass one.
TypedRequests == {req \in Requests : req.feedback = "undefined"}
\* The calls the specifications that interleave callers draw from: the
\* factory and the facade never look at the closet, so closets of no or one
\* item stand for all; the sequential specification and the one of the
\* adapters draw from all of Requests.
InterleavedRequests == {req \in TypedRequests : Len(req.closet) <= 1}

\* -------------------------------------------- what a backend answers
\* image: the answer carries inline image data; text: it carries a text part
\* (generateContent) / a non empty text; json: how the text reads as JSON
\* ("list" a StyleRecommendation[], "nonconforming" JSON of another shape,
\* "invalid" a bracketed text that does not parse, "none" no JSON at all);
\* recs: the list it parses to.  t = "nocandidates": the answer has no
\* candidates / generated images.  Rejections carry the transport's message.
Answer(t, img, txt, js, rs) ==
  [t |-> t, image |-> img, text |-> txt, json |-> js, recs |-> rs]
BackendRecLists ==
  {<<>>, <<Rec("Backend Style", 1, 0)>>, <<Rec("Backend Style", 7, 8)>>}
ContentAnswers ==
  {Answer("content", i, x, "none", <<>>) : i \in BOOLEAN, x \in BOOLEAN}
JsonAnswers ==
  {Answer("content", FALSE, TRUE, "list", rs) : rs \in BackendRecLists}
    \cup {Answer("content", FALSE, TRUE, j, <<>>) : j \in {"nonconforming", "invalid", "none"}}
NoCandidates == Answer("nocandidates", FALSE, FALSE, "none", <<>>)
TransportFailures ==
  {Answer(t, FALSE, FALSE, "none", <<>>) : t \in {"reject", "geo"}}
\* An operation that makes no round trip.
NoAnswer == Answer("none", FALSE, FALSE, "none", <<>>)
BackendAnswers ==
  ContentAnswers \cup JsonAnswers \cup {NoCandidates} \cup TransportFailures
TransportMessage(a) ==
  IF a.t = "geo" THEN <<"User location is not supported">> ELSE <<"transport error">>
Includes(msg, part) == \E i \in 1..Len(msg) : msg[i] = part
Failed(a) == a.t \in {"reject", "geo"}

\* --------------------------------------- geminiService.ts (gemini-direct)
DirectCatch(o) ==
  IF o.tag = "error" THEN Rejected(<<"Gemini API error">> \o o.err) ELSE o

DirectCallImageEditAPI(a) ==
  DirectCatch(
    IF Failed(a) THEN Rejected(TransportMessage(a))
    ELSE LET img == IF a.t = "content" /\ a.image THEN "image" ELSE "null"
             txt == IF a.t = "content" /\ a.text THEN "text" ELSE "null"
         IN  IF img = "null" /\ txt = "null"
               THEN Rejected(<<"invalid response, no image found">>)
               ELSE AIResult(img, txt))

\* Two round trips: a text model designs the outfit, the image model renders
\* it.  The first is outside every try block.
DirectGenerateAndRecommendOutfit(design, edit) ==
  IF Failed(design) THEN Rejected(TransportMessage(design))
  ELSE IF ~(design.t = "content" /\ design.text)
    THEN Rejected(<<"the AI designer produced no outfit description">>)
  ELSE LET editResult == DirectCallImageEditAPI(edit)
       IN  IF editResult.tag = "AIResult" /\ editResult.imageBase64 # "null"
             THEN editResult
             ELSE Rejected(<<"sorry, the AI cannot complete the try-on now">>)

DirectGetStyleRecommendations(closet, a) ==
  DirectCatch(
    IF Failed(a) THEN Rejected(TransportMessage(a))
    ELSE IF a.t = "content" /\ a.text /\ a.json = "list" THEN RecList(a.recs)
    ELSE IF a.t = "content" /\ a.text /\ a.json = "nonconforming" THEN Unvalidated
    ELSE Rejected(<<"JSON.parse: unexpected token">>))

DirectGenerateClothingItem(a) ==
  DirectCatch(
    IF Failed(a) THEN Rejected(TransportMessage(a))
    ELSE IF a.t = "content" /\ a.image THEN Base64("imageBytes")
    ELSE Rejected(<<"the AI returned no image">>))


\* ------------------------------------ geminiService.vertexai.ts (vertex-ai)
VertexCatch(prefix, o) ==
  IF o.tag = "error" THEN Rejected(<<prefix>> \o o.err) ELSE o

CallVertexAIImageAPI_Raw(a) ==
  VertexCatch("Vertex AI Gemini API Error",
    IF Failed(a) THEN Rejected(TransportMessage(a))
    ELSE AIResult("null", IF a.t = "content" /\ a.text THEN "text" ELSE "null"))

\* imageBase64 is null whatever the answer holds; text || default.
CallVertexAIImageAPI(a) ==
  VertexCatch("Vertex AI Gemini API Error",
    IF Failed(a) THEN Rejected(TransportMessage(a))
    ELSE AIResult("null",
           IF a.t = "content" /\ a.text THEN "text"
           ELSE "Generated outfit description from Vertex AI"))

VertexGetStyleRecommendations(closet, a) ==
  VertexCatch("Vertex AI API Error",
    IF Failed(a) THEN Rejected(TransportMessage(a))
    ELSE IF a.t = "content" /\ a.text /\ a.json = "list" THEN RecList(a.recs)
    ELSE IF a.t = "content" /\ a.text /\ a.json = "nonconforming" THEN Unvalidated
    ELSE IF a.t = "content" /\ a.text /\ a.json = "invalid"
      THEN Rejected(<<"JSON.parse: unexpected token">>)
    ELSE RecList(<<>>))

\* description = parts[0].text || ''; return btoa(description).
VertexGenerateClothingItem(a) ==
  VertexCatch("Vertex AI API Error",
    IF Failed(a) THEN Rejected(TransportMessage(a))
    ELSE IF a.t = "content"
      THEN Base64(IF a.text THEN "btoa(description)" ELSE "")
    ELSE Rejected(<<"No response generated">>))

\* ----------------------------------------------- geminiService.mock.ts
\* closet.find(item => item.type === t)?.id, 0 for undefined.
FindId(closet, t) ==
  IF \E i \in 1..Len(closet) : closet[i] = t
    THEN CHOOSE i \in 1..Len(closet) :
           closet[i] = t /\ \A j \in 1..(i - 1) : closet[j] # t
    ELSE 0

MockGenerateOutfit == AIResult("mockOutfitImage", "mock description")

MockGetStyleRecommendations_NeedsPair(closet) ==
  IF Len(closet) < 2
    THEN Rejected(<<"TypeError: cannot read properties of undefined">>)
    ELSE RecList(<< Rec("Casual Weekend", FindId(closet, "TOP"),
                        FindId(closet, "BOTTOM")) >>)

MockGetStyleRecommendations(closet) ==
  IF Len(closet) = 0 THEN RecList(<<>>)
  ELSE LET top == FindId(closet, "TOP")
           bottom == FindId(closet, "BOTTOM")
           all == << Rec("Casual Weekend", top, bottom),
                     Rec("Smart Casual", top, bottom),
                     Rec("Effortless Chic", top, 0) >>
       IN  RecList(SelectSeq(all, LAMBDA rec : rec.topId # 0 \/ rec.bottomId # 0))

MockGenerateClothingItem == Base64("btoa(mockSvg)")

\* ------------------------------------------------- the AIService objects
\* service.<fn>(...) on the object initializeX returned.  The gemini-direct
\* object takes generateOutfit from a module that does not export it: the
\* member is undefined and calling it throws.
Invoke(kind, request, a, a2) ==
  CASE kind = "gemini-direct" ->
         (CASE request.fn = "generateOutfit" ->
                 Rejected(<<"TypeError: service.generateOutfit is not a function">>)
            [] request.fn = "generateAndRecommendOutfit" ->
                 DirectGenerateAndRecommendOutfit(a, a2)
            [] request.fn = "getStyleRecommendations" ->
                 DirectGetStyleRecommendations(request.closet, a)
            [] OTHER -> DirectGenerateClothingItem(a))
    [] kind = "vertex-ai" ->
         (CASE request.fn \in {"generateOutfit", "generateAndRecommendOutfit"} ->
                 CallVertexAIImageAPI(a)
            [] request.fn = "getStyleRecommendations" ->
                 VertexGetStyleRecommendations(request.closet, a)
            [] OTHER -> VertexGenerateClothingItem(a))
    [] OTHER ->
         (CASE request.fn \in {"generateOutfit", "generateAndRecommendOutfit"} ->
                 MockGenerateOutfit
            [] request.fn = "getStyleRecommendations" ->
                 MockGetStyleRecommendations(request.closet)
            [] OTHER -> MockGenerateClothingItem)

\* The answers the backend of an adapter can give to one operation: the
\* first round trip and, for the two step pipeline of gemini-direct, the
\* second.
Answers(kind, fn) ==
  CASE kind = "mock" -> {<<NoAnswer, NoAnswer>>}
    [] kind = "gemini-direct" /\ fn = "generateOutfit" -> {<<NoAnswer, NoAnswer>>}
    [] kind = "gemini-direct" /\ fn = "generateAndRecommendOutfit" ->
         {as \in (ContentAnswers \cup TransportFailures)
                   \X (ContentAnswers \cup {NoCandidates, NoAnswer}
                         \cup TransportFailures) :
            \* the edit call is made exactly when the design call gave text
            (as[2] # NoAnswer) <=> (as[1].t = "content" /\ as[1].text)}
    [] fn = "getStyleRecommendations" ->
         (JsonAnswers \cup {NoCandidates} \cup TransportFailures) \X {NoAnswer}
    [] OTHER ->
         (ContentAnswers \cup {NoCandidates} \cup TransportFailures) \X {NoAnswer}

\* ------------------------------------------------ the connectivity tests
ProbeAnswers == BackendAnswers

\* testVertexAIConnection: true when the answer has candidates with a first
\* part; an answer without them and every exception (also the TypeError of
\* reading parts[0] of an empty list) give false.
TestVertexAIConnection(a) == a.t = "content" /\ (a.image \/ a.text)

\* The probe of initializeGeminiDirect, getStyleRecommendations([]).
GeminiProbe(a) == DirectGetStyleRecommendations(<<>>, a)

\* What the awaited connectivity test settled to: testVertexAIConnection
\* resolves with a boolean; the test of gemini-direct is the promise of
\* getStyleRecommendations([]), which resolves or rejects.
ProbeResult(k, a) ==
  IF k = "vertex-ai"
    THEN (IF TestVertexAIConnection(a) THEN "true" ELSE "false")
    ELSE (IF GeminiProbe(a).tag = "error" THEN "rejected" ELSE "resolved")

\* Did the probe find the backend unusable?
ProbeFailed(k, a) ==
  IF k = "vertex-ai" THEN ~TestVertexAIConnection(a)
  ELSE GeminiProbe(a).tag = "error"

\* Does the probe make initializeX throw?  Vertex: !isWorking.  Gemini
\* direct: only a rejection whose message has the geo-restriction text; the
\* catch block swallows every other one.
ProbeThrows(k, a) ==
  IF k = "vertex-ai" THEN ~TestVertexAIConnection(a)
  ELSE /\ GeminiProbe(a).tag = "error"
       /\ \/ Includes(GeminiProbe(a).err, "User location is not supported")
          \/ Includes(GeminiProbe(a).err, "FAILED_PRECONDITION")

\* ---------------------------------------------------- storageService.ts
\* A JavaScript number is a finite n or NaN; JSON text has finite numbers
\* and null.  An item handed to addClosetItems has no id yet.
Num(n) == [n |-> n, t |-> "number"]
NaN == [n |-> 0, t |-> "NaN"]
JsonNull == [n |-> 0, t |-> "null"]
NoId == [n |-> 0, t |-> "undefined"]

MakeItem(id, type, description, imageUrl) ==
  [id |-> id, type |-> type, description |-> description, imageUrl |-> imageUrl]

STORAGE_VERSION == "1.0.0"

\* What localStorage holds under STORAGE_KEYS.CLOSET: nothing
\* (getItem gives null), text that is not JSON, the JSON text null, or the
\* JSON text of an object; version "" is a missing version, hasItems says
\* that items is an array, lastModified is the typeof of that field.
Absent ==
  [kind |-> "absent", version |-> "", hasItems |-> FALSE, items |-> <<>>,
   lastModified |-> "undefined"]
NotJson == [Absent EXCEPT !.kind = "text"]
NullText == [Absent EXCEPT !.kind = "null"]

\* const closetData = {version: STORAGE_VERSION, items, lastModified: Date.now()}
ClosetData(items) ==
  [kind |-> "object", version |-> STORAGE_VERSION, hasItems |-> TRUE,
   items |-> items, lastModified |-> "number"]

\* JSON.stringify writes NaN as null and every other value here as it is.
JsonNumber(x) == IF x.t = "NaN" THEN JsonNull ELSE x
JsonItem(item) == [item EXCEPT !.id = JsonNumber(@)]
Stringify(closetData) ==
  [closetData EXCEPT !.items = [i \in DOMAIN closetData.items |->
                                  JsonItem(closetData.items[i])]]

\* JSON.parse throws on text that is not JSON and gives the value the text
\* denotes otherwise.
ParseThrows(text) == text.kind = "text"
Parse(text) == text

validateClothingItem(item) ==
  /\ item.id.t \in {"number", "NaN"}
  /\ item.type \in {"TOP", "BOTTOM"}
  /\ item.description # ""
  /\ item.imageUrl # ""

validateStoredCloset(data) ==
  /\ data.kind = "object"
  /\ data.version # ""
  /\ data.hasItems
  /\ data.lastModified = "number"
  /\ \A i \in DOMAIN data.items : validateClothingItem(data.items[i])

migrateStoredData(data) ==
  IF data.version = STORAGE_VERSION THEN data
  ELSE [data EXCEPT !.version = STORAGE_VERSION, !.lastModified = "number"]

\* StorageResult<T>; thrown marks a call that ended in an exception.
Success(data) ==
  [data |-> data, success |-> TRUE, thrown |-> FALSE, hasData |-> TRUE,
   errorCode |-> "none"]
SuccessVoid == [Success(<<>>) EXCEPT !.hasData = FALSE]
Thrown == [SuccessVoid EXCEPT !.success = FALSE, !.thrown = TRUE]
handleStorageError(quota) ==
  [SuccessVoid EXCEPT !.success = FALSE,
     !.errorCode = IF quota THEN "STORAGE_QUOTA_EXCEEDED" ELSE "STORAGE_ERROR"]

\* localStorage works ("ok"), is full (setItem throws QuotaExceededError,
\* reading and removing work) or is disabled (every access throws).
StorageModes == {"ok", "full", "disabled"}

\* The module's state and the browser's, as the functions below thread it:
\*   isStorageAvailable  the module variable: "null", "true" or "false"
\*   mode                how localStorage behaves now
\*   closet              the value under STORAGE_KEYS.CLOSET
\*   probes              availability probes run since the cache was reset
MaxProbes == 2

\* if (isStorageAvailable !== null) return isStorageAvailable;
AvailabilityCached_OnlyTrue(v) == v = "true"
AvailabilityCached(v) == v # "null"

\* Writes, reads back and removes the test key; anything thrown means false.
checkStorageAvailability(st) ==
  IF AvailabilityCached(st.isStorageAvailable)
    THEN [value |-> st.isStorageAvailable = "true", probed |-> FALSE, st |-> st]
    ELSE [value |-> st.mode = "ok", probed |-> TRUE,
          st |-> [st EXCEPT
                    !.isStorageAvailable = IF st.mode = "ok" THEN "true" ELSE "false",
                    !.probes = IF @ < MaxProbes THEN @ + 1 ELSE @]]

saveClosetItems(st, items) ==
  LET chk == checkStorageAvailability(st)
  IN  IF ~chk.value
        THEN [result |-> handleStorageError(FALSE), probed |-> chk.probed, st |-> chk.st]
      ELSE IF chk.st.mode # "ok"
        THEN [result |-> handleStorageError(chk.st.mode = "full"),
              probed |-> chk.probed, st |-> chk.st]
      ELSE [result |-> SuccessVoid, probed |-> chk.probed,
            st |-> [chk.st EXCEPT !.closet = Stringify(ClosetData(items))]]

\* The catch block of loadClosetItems: try to remove the key, then report
\* success with an empty list.
OnLoadError_Rethrow(st) == [result |-> Thrown, st |-> st]
OnLoadError(st) ==
  [result |-> Success(<<>>),
   st |-> IF st.mode = "disabled" THEN st ELSE [st EXCEPT !.closet = Absent]]

loadClosetItems(st) ==
  LET chk == checkStorageAvailability(st)
      s == chk.st
      storedData == s.closet
      caught == OnLoadError(s)
  IN  IF ~chk.value
        THEN [result |-> Success(<<>>), probed |-> chk.probed, st |-> s]
      ELSE IF s.mode = "disabled"
        THEN [result |-> caught.result, probed |-> chk.probed, st |-> caught.st]
      ELSE IF storedData.kind = "absent"
        THEN [result |-> Success(<<>>), probed |-> chk.probed, st |-> s]
      ELSE IF ParseThrows(storedData)
        THEN [result |-> caught.result, probed |-> chk.probed, st |-> caught.st]
      ELSE IF ~validateStoredCloset(Parse(storedData))
        THEN [result |-> Success(<<>>), probed |-> chk.probed,
              st |-> [s EXCEPT !.closet = Absent]]
      ELSE [result |-> Success(migrateStoredData(Parse(storedData)).items),
            probed |-> chk.probed, st |-> s]

\* Math.max(...existingItems.map(item => item.id)), 0 for an empty closet
RECURSIVE MaxId(_)
MaxId_Length(existingItems) == Len(existingItems)
MaxId(existingItems) ==
  IF existingItems = <<>> THEN 0
  ELSE LET rest == MaxId(Tail(existingItems))
           first == Head(existingItems).id.n
       IN  IF Len(existingItems) = 1 \/ first > rest THEN first ELSE rest

\* id: maxId + index + 1, index counted from 0
GeneratedId_NoIndex(maxId, index) == maxId + 1
GeneratedId(maxId, index) == maxId + index + 1

addClosetItems(st, newItems) ==
  LET ld == loadClosetItems(st)
      existingItems == ld.result.data
      maxId == MaxId(existingItems)
      itemsWithIds ==
        [i \in DOMAIN newItems |->
           [newItems[i] EXCEPT !.id = Num(GeneratedId(maxId, i - 1))]]
      updatedItems == existingItems \o itemsWithIds
      sv == saveClosetItems(ld.st, updatedItems)
  IN  IF ~ld.result.success
        THEN ld
      ELSE IF ~sv.result.success
        THEN [sv EXCEPT !.probed = ld.probed]
      ELSE [result |-> Success(updatedItems), probed |-> ld.probed, st |-> sv.st]

\* item.id !== itemId
KeepsItem_Above(item, itemId) == item.id.n > itemId.n
KeepsItem(item, itemId) == item.id # itemId

removeClosetItem(st, itemId) ==
  LET ld == loadClosetItems(st)
      existingItems == ld.result.data
      updatedItems == SelectSeq(existingItems, LAMBDA item : KeepsItem(item, itemId))
      sv == saveClosetItems(ld.st, updatedItems)
  IN  IF ~ld.result.success
        THEN ld
      ELSE IF ~sv.result.success
        THEN [sv EXCEPT !.probed = ld.probed]
      ELSE [result |-> Success(updatedItems), probed |-> ld.probed, st |-> sv.st]

clearClosetItems(st) ==
  LET chk == checkStorageAvailability(st)
  IN  IF ~chk.value
        THEN [result |-> SuccessVoid, probed |-> chk.probed, st |-> chk.st]
      ELSE IF chk.st.mode = "disabled"
        THEN [result |-> handleStorageError(FALSE), probed |-> chk.probed, st |-> chk.st]
      ELSE [result |-> SuccessVoid, probed |-> chk.probed,
            st |-> [chk.st EXCEPT !.closet = Absent]]

NoPrevious ==
  [items |-> <<>>, data |-> <<>>, success |-> FALSE, op |-> "none", was |-> <<>>]

\* The call that ran last:
\*   op, items, itemId  the function and its arguments
\*   before             the state it started in
\*   result, probed     what it returned; whether it ran the availability probe
\*   previous           for loadClosetItems: the call that ran just before it,
\*                      its arguments, the data it returned and the closet
\*                      (as loadClosetItems gives it) it had started from
NoCall ==
  [items |-> <<>>, probed |-> FALSE, result |-> SuccessVoid, itemId |-> Num(0),
   op |-> "none",
   before |-> [closet |-> Absent, isStorageAvailable |-> "null", mode |-> "ok",
               probes |-> 0],
   previous |-> NoPrevious]

StorageInit ==
  [st |-> [closet |-> Absent, isStorageAvailable |-> "null", mode |-> "ok",
           probes |-> 0],
   last |-> NoCall]

\* ---------------------------------------------------------------- state
VARIABLES
  env,              \* process.env: AI_SERVICE_TYPE and the credentials
  mockLoads,        \* the mock module can be loaded in this deployment
  currentService,   \* AIServiceFactory.currentService
  serviceType,      \* AIServiceFactory.serviceType
  call,             \* per caller: where its async call is and its locals
  settled,          \* what the last step settled, if anything
  nCalls,           \* calls issued so far
  nextId,           \* AIService objects created so far, plus one
  selectionDone,    \* some selection has run to its end (history)
  earlySelections,  \* selections facade calls started before that (history)
  lastSwitch,       \* the k of the switchService(k) that resolved last, "none"
                    \* once another switchService has been called (history)
  app,              \* the state of the App component (useState)
  storage           \* storageService and localStorage, and the last call

vars ==
  <<env, mockLoads, currentService, serviceType, call, settled, nCalls, nextId,
    selectionDone, earlySelections, lastSwitch, app, storage>>

\* A caller that is not inside a call.
\*   pc                 where the call is suspended
\*   entry              "facade" (one of the four functions) or "switchService"
\*   request            the facade function and its arguments; the factory
\*                      never reads them, so they are drawn where the facade
\*                      function hands them to the adapter
\*   configuredService  the local const of getService
\*   sel                the promise getService returned
\*   service            what that promise resolved to (const service)
\*   probed, cause      what the probe found; why the preferred adapter fell
\*   probeOut           what the promise of the probe settled to
\*   answer, answer2    what the backend answered to the round trips of an
\*                      adapter function called on its module; behind the
\*                      facade the answers stay inside the adapter
\*   received           the arguments the adapter function was called with
\*   adapterOut         what service.<fn>(...) settled to
\*   ret                what the call settled to
\*   type, status       the locals of getServiceInfo, which it returns
IdleCall ==
  [pc |-> "idle", entry |-> "none", request |-> NoRequest,
   type |-> "none", status |-> "none",
   configuredService |-> "none",
   sel |-> "none", service |-> NULL, probed |-> "none", cause |-> "none",
   probeOut |-> "none",
   received |-> NoRequest, answer |-> NoAnswer, answer2 |-> NoAnswer,
   adapterOut |-> NoOutcome, ret |-> NoOutcome]

\* No handler of the App has run since the last one that changes what the
\* handlers look things up in.
NoneHandled ==
  [handler |-> "none", recommendation |-> Rec("none", 0, 0), top |-> 0, bottom |-> 0]

\* The App after its first render: useState(null), useState([]).  Ids are
\* 0 for null; the item at position i of the closet has id i.
\*   handled   the handler that ran last, the recommendation it was given and
\*             the items it looked up (const top, const bottom)
AppInit ==
  [userModel |-> FALSE, closet |-> <<>>, selectedTop |-> 0, selectedBottom |-> 0,
   error |-> "null", previewError |-> "null", previewOutfit |-> "null",
   handled |-> NoneHandled]

Init ==
  /\ app = AppInit
  /\ storage = StorageInit
  /\ env \in [AI_SERVICE_TYPE : EnvServiceTypes, API_KEY : BOOLEAN,
              GEMINI_API_KEY : BOOLEAN, GOOGLE_CLOUD_PROJECT_ID : BOOLEAN]
  /\ mockLoads \in BOOLEAN
  /\ currentService = NULL
  /\ serviceType = "mock"
  /\ call = [c \in Callers |-> IdleCall]
  /\ settled = [caller |-> 0, call |-> IdleCall]
  /\ nCalls = 0
  /\ nextId = 1
  /\ selectionDone = FALSE
  /\ earlySelections = 0
  /\ lastSwitch = "none"

\* ------------------------------------------------------------ getService
\* if (this.currentService) return this.currentService;
CacheHit_Never(cur) == FALSE
CacheHit(cur) == cur # NULL

\* catch: if (configuredService !== 'mock') fall back, else throw error
FallsBack_Never(cfg) == FALSE
FallsBack_Always(cfg) == TRUE
FallsBack(cfg) == cfg # "mock"

\* return service.<fn>(...): the facade's promise settles as the adapter's.
FacadeReturn_Wrap(o) ==
  IF o.tag = "error" THEN Rejected(<<"AI service error">> \o o.err) ELSE o
FacadeReturn(o) == o

\* The facade functions pass every parameter they declare to the member of
\* the same name.  getStyleRecommendations declares closet alone: a second
\* argument of the caller is not passed on.
FacadeArguments(req) == [req EXCEPT !.feedback = "undefined"]

NothingSettled == [caller |-> 0, call |-> IdleCall]

\* What a caller still holds once getService has returned: the request and
\* const service.  The locals of getService are gone.
AfterGetService(rec) ==
  [IdleCall EXCEPT !.pc = rec.pc, !.entry = rec.entry, !.sel = rec.sel,
                   !.service = rec.service]

\* getServiceInfo after its await: the try block sets status to 'Connected',
\* the catch block to 'Error'; the function returns {type, status} with the
\* type it read before the await.  Every other function goes on as it is.
AfterAwait(rec) ==
  IF rec.entry = "getServiceInfo" /\ rec.sel \in {"resolved", "rejected"}
    THEN [rec EXCEPT !.pc = "done", !.ret = ServiceInfo,
                     !.status = IF rec.sel = "resolved" THEN "Connected" ELSE "Error"]
    ELSE rec

\* One step of caller c: its record becomes rec and the factory's fields cur
\* and typ.  `settled` is what the step handed back, with the caller's
\* locals at that moment: the getService promise that resolved in it (pc
\* "op": the facade function goes on with the adapter's operation) or the
\* call that settled in it (pc "done": the caller is idle again).
Update(c, r, cur, typ) ==
  /\ LET rec == AfterAwait(r)
     IN  /\ call' = [call EXCEPT ![c] =
                       IF rec.pc = "done" THEN IdleCall
                       ELSE IF rec.pc = "op" THEN AfterGetService(rec)
                       ELSE rec]
         /\ settled' = IF rec.pc \in {"op", "done"}
                         THEN [caller |-> c, call |-> rec] ELSE NothingSettled
  /\ currentService' = cur
  /\ serviceType' = typ
  /\ nextId' = IF cur # NULL /\ cur # currentService THEN nextId + 1 ELSE nextId
  /\ selectionDone' =
       (selectionDone \/ (call[c].sel = "pending" /\ r.sel # "pending"))
  /\ lastSwitch' =
       IF r.entry # "switchService" THEN lastSwitch
       ELSE IF r.pc = "done" /\ r.sel = "resolved" THEN r.configuredService
       ELSE IF call[c].pc = "idle" THEN "none"
       ELSE lastSwitch
  /\ app' = app
  /\ storage' = storage

\* public getServiceType(): return this.serviceType
getServiceType == serviceType

Resolve_KeepType(c, rec, k) ==
  LET adapter == [kind |-> k, id |-> nextId]
      isSwitch == rec.entry = "switchService"
  IN  Update(c,
        [rec EXCEPT !.sel = "resolved", !.service = adapter,
                    !.pc = IF isSwitch THEN "done" ELSE "op",
                    !.ret = IF isSwitch THEN Void ELSE NoOutcome],
        adapter, serviceType)

\* The selection of caller c ends with a new AIService object of kind k:
\* this.currentService = await this.initializeX(); this.serviceType = k;
\* return this.currentService.  The awaiting facade function goes on to call
\* the adapter, switchService returns.
Resolve(c, rec, k) ==
  LET adapter == [kind |-> k, id |-> nextId]
      isSwitch == rec.entry = "switchService"
  IN  Update(c,
        [rec EXCEPT !.sel = "resolved", !.service = adapter,
                    !.pc = IF isSwitch THEN "done" ELSE "op",
                    !.ret = IF isSwitch THEN Void ELSE NoOutcome],
        adapter, k)

OnInitFailure_Rethrow(c, rec, why, msg) ==
  Update(c, [rec EXCEPT !.pc = "done", !.sel = "rejected", !.cause = why,
                        !.ret = Rejected(msg)],
         currentService, serviceType)

\* initializeX threw msg inside the try block of getService: the catch block
\* starts initializeMockService or rethrows; a rethrown error rejects
\* getService and with it the function that awaits it.
OnInitFailure(c, rec, why, msg) ==
  IF FallsBack(rec.configuredService)
    THEN Update(c, [rec EXCEPT !.pc = "importMock", !.cause = why],
                currentService, serviceType)
    ELSE Update(c, [rec EXCEPT !.pc = "done", !.sel = "rejected", !.cause = why,
                               !.ret = Rejected(msg)],
                currentService, serviceType)

\* getService() called with this.currentService = cur and process.env = e,
\* up to its first await.
BeginGetService(c, rec, cur, e) ==
  LET cfg == ConfiguredService(e)
      started == [rec EXCEPT !.configuredService = cfg, !.sel = "pending"]
  IN  IF CacheHit(cur)
        THEN Update(c, [rec EXCEPT !.sel = "resolved", !.service = cur, !.pc = "op"],
                    cur, serviceType)
      ELSE IF ConfigMissing(cfg, e)
        THEN OnInitFailure(c, started, "config", <<cfg, "not configured">>)
      ELSE Update(c, [started EXCEPT !.pc = "import"], cur, serviceType)

\* ---------------------------------------------------------------- actions
\* A settled promise resumes the function awaiting it in a microtask, and
\* microtasks run before the event loop hands out the next event: while
\* `settled` holds something, the only step is the one that consumes it.
Quiet == settled = NothingSettled

\* Callers are interchangeable slots for the calls in flight: a new call
\* takes the lowest free one.
FreeSlot(c) ==
  /\ Quiet
  /\ call[c].pc = "idle"
  /\ \A d \in Callers : d < c => call[d].pc # "idle"

\* A facade function is called: const service = await getService().
CallFacade(c) ==
  /\ FreeSlot(c)
  /\ nCalls < MaxCalls
  /\ nCalls' = nCalls + 1
  /\ BeginGetService(c, [IdleCall EXCEPT !.entry = "facade"], currentService, env)
  /\ earlySelections' =
       IF ~CacheHit(currentService) /\ ~selectionDone
         THEN earlySelections + 1 ELSE earlySelections
  /\ UNCHANGED <<env, mockLoads>>

\* getServiceInfo(): const type = getServiceType(); await getService().
CallGetServiceInfo(c) ==
  /\ FreeSlot(c)
  /\ nCalls < MaxCalls
  /\ nCalls' = nCalls + 1
  /\ BeginGetService(c, [IdleCall EXCEPT !.entry = "getServiceInfo",
                                         !.type = getServiceType],
                     currentService, env)
  /\ UNCHANGED <<env, mockLoads, earlySelections>>

\* switchService(k): clear the cache, set AI_SERVICE_TYPE, await getService().
SwitchService(c, k) ==
  /\ FreeSlot(c)
  /\ nCalls < MaxCalls
  /\ nCalls' = nCalls + 1
  /\ env' = [env EXCEPT !.AI_SERVICE_TYPE = k]
  /\ BeginGetService(c, [IdleCall EXCEPT !.entry = "switchService"], NULL, env')
  /\ UNCHANGED <<mockLoads, earlySelections>>

\* await import(<module of the configured kind>) settles.
ImportSettles(c) ==
  /\ Quiet
  /\ call[c].pc = "import"
  /\ LET rec == call[c]
         m == ModuleOf(rec.configuredService)
         \* geminiService.ts fails to load only for want of API_KEY
         why == IF m = "gemini-direct" THEN "config" ELSE "import"
     IN  IF ~ImportSucceeds(m, env, mockLoads)
           THEN OnInitFailure(c, rec, why, <<m, "module failed to load">>)
         ELSE IF m = "mock"
           THEN Resolve(c, rec, "mock")
         ELSE Update(c, [rec EXCEPT !.pc = "probe"], currentService, serviceType)
  /\ UNCHANGED <<env, mockLoads, nCalls, earlySelections>>

\* The connectivity test of the preferred adapter settles with answer a.
ProbeSettles(c, a) ==
  /\ Quiet
  /\ call[c].pc = "probe"
  /\ LET k == call[c].configuredService
         rec == [call[c] EXCEPT
                   !.probed = IF ProbeFailed(k, a) THEN "failed" ELSE "ok",
                   !.probeOut = ProbeResult(k, a)]
     IN  IF ProbeThrows(k, a)
           THEN OnInitFailure(c, rec, "probe", <<k, "connection test failed">>)
           ELSE Resolve(c, rec, k)
  /\ UNCHANGED <<env, mockLoads, nCalls, earlySelections>>

\* await import('./geminiService.mock') of the catch block settles.
MockImportSettles(c) ==
  /\ Quiet
  /\ call[c].pc = "importMock"
  /\ IF ImportSucceeds("mock", env, mockLoads)
       THEN Resolve(c, call[c], "mock")
       ELSE Update(c, [call[c] EXCEPT !.pc = "done", !.sel = "rejected",
                         !.ret = Rejected(<<"mock", "module failed to load">>)],
                   currentService, serviceType)
  /\ UNCHANGED <<env, mockLoads, nCalls, earlySelections>>

OperationSettles_Reselect(c, req) ==
  /\ Quiet
  /\ call[c].pc = "op"
  /\ \E as \in Answers(call[c].service.kind, req.fn) :
       LET out == Invoke(call[c].service.kind, FacadeArguments(req), as[1], as[2])
       IN  Update(c, [call[c] EXCEPT !.pc = "done", !.request = req,
                                     !.received = FacadeArguments(req),
                                     !.adapterOut = out, !.ret = FacadeReturn(out)],
                  IF out.tag = "error" THEN NULL ELSE currentService, serviceType)
  /\ UNCHANGED <<env, mockLoads, nCalls, earlySelections>>

\* return service.<fn>(...args): the facade function req.fn, called with
\* req's arguments, hands them to the adapter, whose backend answers as; the
\* facade's promise settles with the adapter's.
OperationSettles(c, req) ==
  /\ Quiet
  /\ call[c].pc = "op"
  /\ \E as \in Answers(call[c].service.kind, req.fn) :
       LET out == Invoke(call[c].service.kind, FacadeArguments(req), as[1], as[2])
       IN  Update(c, [call[c] EXCEPT !.pc = "done", !.request = req,
                                     !.received = FacadeArguments(req),
                                     !.adapterOut = out, !.ret = FacadeReturn(out)],
                  currentService, serviceType)
  /\ UNCHANGED <<env, mockLoads, nCalls, earlySelections>>

\* An adapter function called on its module, not through the factory, as
\* App.tsx and the unit tests of the adapters call it: function req.fn of
\* the loaded module k, the backend answering as.
AdapterCall(k, req, as) ==
  /\ Quiet
  /\ ImportSucceeds(k, env, mockLoads)
  /\ as \in Answers(k, req.fn)
  /\ settled' =
       [caller |-> 0,
        call |-> [IdleCall EXCEPT
                    !.pc = "done", !.entry = "adapter",
                    !.service = [kind |-> k, id |-> 0], !.request = req,
                    !.received = req,
                    !.answer = as[1], !.answer2 = as[2],
                    !.adapterOut = Invoke(k, req, as[1], as[2]),
                    !.ret = Invoke(k, req, as[1], as[2])]]
  /\ UNCHANGED <<env, mockLoads, currentService, serviceType, call, nCalls,
                 nextId, selectionDone, earlySelections, lastSwitch, app,
                 storage>>

\* The function awaiting the promise that just settled has taken its value.
Continue ==
  /\ ~Quiet
  /\ settled' = NothingSettled
  /\ UNCHANGED <<env, mockLoads, currentService, serviceType, call, nCalls,
                 nextId, selectionDone, earlySelections, lastSwitch, app,
                 storage>>

Next ==
  \/ \E c \in Callers : CallFacade(c)
  \/ \E c \in Callers, k \in ServiceTypes : SwitchService(c, k)
  \/ \E c \in Callers : ImportSettles(c)
  \/ \E c \in Callers, a \in ProbeAnswers : ProbeSettles(c, a)
  \/ \E c \in Callers : MockImportSettles(c)
  \/ \E c \in Callers, req \in InterleavedRequests : OperationSettles(c, req)
  \/ Continue

Spec == Init /\ [][Next]_vars

\* A status page: getServiceInfo next to the facade calls, no switchService.
InfoNext ==
  \/ \E c \in Callers : CallGetServiceInfo(c)
  \/ \E c \in Callers : CallFacade(c)
  \/ \E c \in Callers : ImportSettles(c)
  \/ \E c \in Callers, a \in ProbeAnswers : ProbeSettles(c, a)
  \/ \E c \in Callers : MockImportSettles(c)
  \/ \E c \in Callers, req \in InterleavedRequests : OperationSettles(c, req)
  \/ Continue

InfoSpec == Init /\ [][InfoNext]_vars

\* Facade calls only: no switchService.
FacadeNext ==
  \/ \E c \in Callers : CallFacade(c)
  \/ \E c \in Callers : ImportSettles(c)
  \/ \E c \in Callers, a \in ProbeAnswers : ProbeSettles(c, a)
  \/ \E c \in Callers : MockImportSettles(c)
  \/ \E c \in Callers, req \in InterleavedRequests : OperationSettles(c, req)
  \/ Continue

FacadeSpec == Init /\ [][FacadeNext]_vars

\* A sequential run: a facade function is called when no call is in flight,
\* with any arguments, declared by the facade or not.
NoneInFlight == \A d \in Callers : call[d].pc = "idle"

SeqNext ==
  \/ \E c \in Callers : NoneInFlight /\ CallFacade(c)
  \/ \E c \in Callers : ImportSettles(c)
  \/ \E c \in Callers, a \in ProbeAnswers : ProbeSettles(c, a)
  \/ \E c \in Callers : MockImportSettles(c)
  \/ \E c \in Callers, req \in Requests : OperationSettles(c, req)
  \/ Continue

SeqSpec == Init /\ [][SeqNext]_vars

\* ------------------------------------------------------------- App.tsx
\* closet.find(item => item.id === id) || null
FindItem_OrFirst(closet, id) ==
  IF id \in 1..Len(closet) THEN id ELSE IF closet # <<>> THEN 1 ELSE 0
FindItem(closet, id) ==
  IF \E i \in 1..Len(closet) : i = id THEN id ELSE 0

\* The recommendations a backend can hand the App: each id omitted (0), the
\* id of an item a closet can hold, or an id no closet holds.
AppRecommendations ==
  {Rec("Backend Style", t, b) : t \in 0..(MaxCloset + 1), b \in 0..(MaxCloset + 1)}

NoClothingFound == "no valid clothing item found in the recommendation"

FactoryUnchanged ==
  UNCHANGED <<env, mockLoads, currentService, serviceType, call, settled, nCalls,
              nextId, selectionDone, earlySelections, lastSwitch>>

StorageUnchanged == storage' = storage

handleModelUpload ==
  /\ app' = [app EXCEPT !.userModel = TRUE, !.error = "null",
                        !.handled = NoneHandled]
  /\ StorageUnchanged
  /\ FactoryUnchanged

\* One item of type t is added; crypto.randomUUID() is the next position.
handleAddItemsToCloset(t) ==
  /\ Len(app.closet) < MaxCloset
  /\ app' = [app EXCEPT !.closet = Append(@, t), !.handled = NoneHandled]
  /\ StorageUnchanged
  /\ FactoryUnchanged

handleRecommendationSelect(recommendation) ==
  /\ LET foundTop == FindItem(app.closet, recommendation.topId)
         foundBottom == FindItem(app.closet, recommendation.bottomId)
     IN  app' = [app EXCEPT
                   !.selectedTop = foundTop, !.selectedBottom = foundBottom,
                   !.error = "null",
                   !.handled = [handler |-> "select",
                                recommendation |-> recommendation,
                                top |-> foundTop, bottom |-> foundBottom]]
  /\ StorageUnchanged
  /\ FactoryUnchanged

\* The whole handler, the awaited generateVirtualTryOn(userModel, top,
\* bottom) answered by a; top and bottom are taken before the await.
handlePreviewRecommendation(recommendation, a) ==
  /\ IF ~app.userModel
       THEN app' = [app EXCEPT
                     !.error = "upload your photo first",
                     !.handled = [handler |-> "previewWithoutModel",
                                  recommendation |-> recommendation,
                                  top |-> 0, bottom |-> 0]]
       ELSE
         LET top == FindItem(app.closet, recommendation.topId)
             bottom == FindItem(app.closet, recommendation.bottomId)
             result == DirectCallImageEditAPI(a)
             done == [app EXCEPT
                        !.previewError = "null", !.previewOutfit = "null",
                        !.handled = [handler |-> "preview",
                                     recommendation |-> recommendation,
                                     top |-> top, bottom |-> bottom]]
         IN  IF top = 0 /\ bottom = 0
               THEN app' = [done EXCEPT !.previewError = NoClothingFound]
             ELSE IF result.tag = "error"
               THEN app' = [done EXCEPT !.previewError = result.err[1]]
             ELSE IF result.imageBase64 # "null" /\ result.text # "null"
               THEN app' = [done EXCEPT !.previewOutfit = "outfit"]
             ELSE app' = [done EXCEPT !.previewError = "cannot generate the preview"]
  /\ StorageUnchanged
  /\ FactoryUnchanged

AppNext ==
  \/ handleModelUpload
  \/ \E t \in {"TOP", "BOTTOM"} : handleAddItemsToCloset(t)
  \/ \E recommendation \in AppRecommendations :
       handleRecommendationSelect(recommendation)
  \/ \E recommendation \in AppRecommendations,
        a \in ContentAnswers \cup {NoCandidates} \cup TransportFailures :
       handlePreviewRecommendation(recommendation, a)

\* The App imports geminiService: the module loads, API_KEY is set.  The
\* handlers read nothing else of the environment.
AppLoaded ==
  /\ Init
  /\ env = [AI_SERVICE_TYPE |-> "unset", API_KEY |-> TRUE,
            GEMINI_API_KEY |-> FALSE, GOOGLE_CLOUD_PROJECT_ID |-> FALSE]
  /\ mockLoads = TRUE

AppSpec == AppLoaded /\ [][AppNext]_vars

\* ------------------------------------------- storageService.ts: calls
ItemIds == 1..(MaxCloset + 1)

\* Items a caller can hand to saveClosetItems, which takes what it is given:
\* well-formed ones, and one with each defect validateClothingItem looks
\* for after the round trip through JSON.
SavableItems ==
  {MakeItem(Num(n), IF n % 2 = 1 THEN "TOP" ELSE "BOTTOM", "shirt", "data:image") :
     n \in ItemIds}
    \cup {MakeItem(NaN, "TOP", "shirt", "data:image"),
          MakeItem(Num(1), "TOP", "", "data:image"),
          MakeItem(Num(1), "TOP", "shirt", "")}

RECURSIVE SeqsUpTo(_, _)
SeqsUpTo(S, n) ==
  IF n = 0 THEN {<<>>}
  ELSE LET shorter == SeqsUpTo(S, n - 1)
       IN  shorter \cup {Append(s, x) : s \in shorter, x \in S}

SaveLists == SeqsUpTo(SavableItems, MaxCloset)

\* Items a caller can hand to addClosetItems: Omit<ClothingItem, 'id'>.
NewItems ==
  {MakeItem(NoId, t, "shirt", "data:image") : t \in {"TOP", "BOTTOM"}}
    \cup {MakeItem(NoId, "TOP", "", "data:image")}

NewItemLists == SeqsUpTo(NewItems, 2)

\* The longest closet a call of addClosetItems may produce here.
MaxStored == MaxCloset + 2

\* What something other than this module (a test, another tab, an older
\* release) can leave under the key.
ForeignTexts ==
  {NotJson, NullText,
   [ClosetData(<<>>) EXCEPT !.hasItems = FALSE],
   [ClosetData(<<>>) EXCEPT !.lastModified = "undefined"],
   [ClosetData(<<MakeItem(Num(2), "BOTTOM", "jeans", "data:image")>>)
      EXCEPT !.version = "2.0.0"],
   ClosetData(<<MakeItem(Num(1), "TOP", "shirt", "data:image"),
                MakeItem(Num(1), "BOTTOM", "jeans", "data:image")>>),
   ClosetData(<<MakeItem(Num(1), "TOP", "shirt", "data:image"),
                MakeItem(JsonNull, "TOP", "shirt", "data:image")>>)}

\* A call of op with the given arguments ran from storage.st and came out
\* as out.
Called(op, items, itemId, out) ==
  /\ storage' =
       [st |-> out.st,
        last |-> [items |-> items, probed |-> out.probed, result |-> out.result,
                  itemId |-> itemId, op |-> op, before |-> storage.st,
                  previous |->
                    IF op = "loadClosetItems" /\ storage.last.op # "none"
                      THEN [items |-> storage.last.items,
                            data |-> storage.last.result.data,
                            success |-> storage.last.result.success,
                            op |-> storage.last.op,
                            was |-> loadClosetItems(storage.last.before).result.data]
                      ELSE NoPrevious]]
  /\ app' = app
  /\ FactoryUnchanged

CallSaveClosetItems(items) ==
  Called("saveClosetItems", items, Num(0), saveClosetItems(storage.st, items))

CallLoadClosetItems ==
  Called("loadClosetItems", <<>>, Num(0), loadClosetItems(storage.st))

CallAddClosetItems(newItems) ==
  /\ Len(loadClosetItems(storage.st).result.data) + Len(newItems) <= MaxStored
  /\ Called("addClosetItems", newItems, Num(0), addClosetItems(storage.st, newItems))

CallRemoveClosetItem(itemId) ==
  Called("removeClosetItem", <<>>, itemId, removeClosetItem(storage.st, itemId))

CallClearClosetItems ==
  Called("clearClosetItems", <<>>, Num(0), clearClosetItems(storage.st))

CallCheckStorageAvailability ==
  LET chk == checkStorageAvailability(storage.st)
  IN  Called("checkStorageAvailability", <<>>, Num(0),
             [result |-> [SuccessVoid EXCEPT !.success = chk.value],
              probed |-> chk.probed, st |-> chk.st])

resetStorageAvailabilityCache ==
  Called("resetStorageAvailabilityCache", <<>>, Num(0),
         [result |-> SuccessVoid, probed |-> FALSE,
          st |-> [storage.st EXCEPT !.isStorageAvailable = "null", !.probes = 0]])

\* The browser's storage starts or stops working, or fills up.
StorageModeChanges(m) ==
  /\ m # storage.st.mode
  /\ storage' = [st |-> [storage.st EXCEPT !.mode = m], last |-> NoCall]
  /\ app' = app
  /\ FactoryUnchanged

\* Something else writes the key.
ForeignWrite(text) ==
  /\ storage.st.mode = "ok"
  /\ storage' = [st |-> [storage.st EXCEPT !.closet = text], last |-> NoCall]
  /\ app' = app
  /\ FactoryUnchanged

\* The storage service in the browser that runs the App.
StorageNext ==
  \/ \E items \in SaveLists : CallSaveClosetItems(items)
  \/ CallLoadClosetItems
  \/ CallClearClosetItems
  \/ CallCheckStorageAvailability
  \/ resetStorageAvailabilityCache
  \/ \E m \in StorageModes : StorageModeChanges(m)
  \/ \E text \in ForeignTexts : ForeignWrite(text)

StorageSpec == AppLoaded /\ [][StorageNext]_vars

\* The closet kept through addClosetItems and removeClosetItem.
ClosetNext ==
  \/ \E newItems \in NewItemLists : CallAddClosetItems(newItems)
  \/ \E n \in 1..(MaxStored + 1) : CallRemoveClosetItem(Num(n))
  \/ CallLoadClosetItems
  \/ \E m \in StorageModes : StorageModeChanges(m)
  \/ \E text \in ForeignTexts : ForeignWrite(text)

ClosetSpec == AppLoaded /\ [][ClosetNext]_vars

\* The same from an empty closet that nothing else writes.
OwnClosetNext ==
  \/ \E newItems \in NewItemLists : CallAddClosetItems(newItems)
  \/ \E n \in 1..(MaxStored + 1) : CallRemoveClosetItem(Num(n))
  \/ \E m \in StorageModes : StorageModeChanges(m)

OwnClosetSpec == AppLoaded /\ [][OwnClosetNext]_vars

\* The adapter modules used without the factory.
AdapterNext ==
  \/ \E k \in ServiceTypes, req \in Requests :
       \E as \in Answers(k, req.fn) : AdapterCall(k, req, as)
  \/ Continue

AdapterSpec == Init /\ [][AdapterNext]_vars

\* Every awaited promise settles (the module loader and the transport answer
\* or fail, section 5 of the specification), and the event loop runs the
\* continuation of a settled promise.
Fairness ==
  /\ \A c \in Callers : WF_vars(ImportSettles(c))
  /\ \A c \in Callers : WF_vars(\E a \in ProbeAnswers : ProbeSettles(c, a))
  /\ \A c \in Callers : WF_vars(MockImportSettles(c))
  /\ \A c \in Callers : WF_vars(\E req \in InterleavedRequests : OperationSettles(c, req))
  /\ WF_vars(Continue)

FairSpec == Spec /\ Fairness

\* ---------------------------------------------------------------- claims
\* The selection promise of the event in `settled`.
SelectionEnded == settled.caller # 0 /\ settled.call.adapterOut = NoOutcome
Selected == SelectionEnded /\ settled.call.sel = "resolved"
SelectionThrew == SelectionEnded /\ settled.call.sel = "rejected"
OperationEnded ==
  /\ settled.caller # 0
  /\ settled.call.entry = "facade"
  /\ settled.call.adapterOut # NoOutcome
InSelection(c) == call[c].pc \in {"import", "probe", "importMock"}

\* C1: facade calls issued before the first selection has run to its end
\* start the construction and probing of an adapter once in total, not once
\* per caller.
C1_OneConstructionForConcurrentCallers == earlySelections <= 1

\* C2: once an adapter is cached, currentService keeps that value: no step
\* clears or replaces it.
C2_CachedSelectionNeverChanges ==
  [][currentService # NULL => currentService' = currentService]_vars

\* C3: in a sequential run, once a selection has cached an adapter, no later
\* step constructs or probes an adapter, the cache keeps its value, and every
\* facade call is handed the cached adapter.
C3_SequentialCallsReuseTheCache ==
  [][currentService # NULL =>
       /\ currentService' = currentService
       /\ \A c \in Callers :
            /\ ~InSelection(c)'
            /\ call'[c].pc = "op" => call'[c].service = currentService]_vars

C3_Witness ==
  /\ Selected
  /\ settled.call.configuredService = "none"
  /\ settled.call.service = currentService
  /\ nCalls >= 2

\* C4 as claimed: a selection whose preferred adapter could not be built for
\* want of its configuration resolves with the mock adapter and does not
\* throw.
C4_ConfigFailureAlwaysYieldsMock ==
  (SelectionEnded /\ settled.call.cause = "config") =>
    (settled.call.sel = "resolved" /\ settled.call.service.kind = "mock")

\* C4 as amended: such a selection resolves with the mock adapter and does
\* not throw when the mock module loads; when it does not, the mock's own
\* failure reaches the caller.
C4_ConfigFailureYieldsMockIfItLoads ==
  (SelectionEnded /\ settled.call.cause = "config") =>
    IF mockLoads
      THEN settled.call.sel = "resolved" /\ settled.call.service.kind = "mock"
      ELSE settled.call.sel = "rejected"
           /\ settled.call.ret = Rejected(<<"mock", "module failed to load">>)

C4_Witness ==
  /\ Selected
  /\ settled.call.cause = "config"
  /\ settled.call.service.kind = "mock"
  /\ currentService = settled.call.service

\* C5: a selection whose connectivity probe failed, for whatever reason,
\* does not cache or return the preferred adapter: it falls back to the mock.
C5_FailedProbeFallsBackToMock ==
  (Selected /\ settled.call.probed = "failed") =>
    settled.call.service.kind = "mock"

\* C6: the callers of one process are served by one adapter: no two calls
\* hold adapters of different kinds.
C6_AllCallersServedByOneKind ==
  \A c, d \in Callers :
    (call[c].pc = "op" /\ call[d].pc = "op") =>
      call[c].service.kind = call[d].service.kind

C8_MockFailurePropagates ==
  [][\A c \in Callers :
       (/\ call[c].pc = "import"
        /\ call[c].configuredService = "mock"
        /\ ~mockLoads
        /\ call'[c] # call[c])
       => /\ settled' = [caller |-> c,
                         call |-> [call[c] EXCEPT
                                     !.pc = "done", !.sel = "rejected",
                                     !.cause = "import",
                                     !.ret = Rejected(<<"mock", "module failed to load">>)]]
          /\ call'[c] = IdleCall
          /\ currentService' = currentService
          /\ serviceType' = serviceType]_vars

C8_Witness ==
  /\ SelectionThrew
  /\ settled.call.configuredService = "mock"
  /\ settled.call.ret = Rejected(<<"mock", "module failed to load">>)
  /\ settled.call.service = NULL

\* C9: the step in which an operation of the cached adapter fails leaves the
\* cache, the service type and the configuration as they were, starts no
\* selection, and hands the failure to the caller of that operation alone.
C9_OperationFailureLeavesSelection ==
  [][\A c \in Callers :
       (call[c].pc = "op" /\ settled'.caller = c
          /\ settled'.call.adapterOut.tag = "error")
       => /\ currentService' = currentService
          /\ serviceType' = serviceType
          /\ env' = env
          /\ settled'.call.ret = settled'.call.adapterOut
          /\ call'[c] = IdleCall
          /\ \A d \in Callers \ {c} : call'[d] = call[d]]_vars

C9_Witness ==
  /\ OperationEnded
  /\ settled.call.adapterOut.tag = "error"
  /\ settled.call.service = currentService

\* C10: a facade call that got an adapter settles exactly as the operation
\* of that name of that adapter settled for the arguments of the call.
C10_FacadeReturnsAdapterOutcome ==
  OperationEnded =>
    /\ settled.call.ret = settled.call.adapterOut
    /\ \E as \in Answers(settled.call.service.kind, settled.call.request.fn) :
         settled.call.adapterOut =
           Invoke(settled.call.service.kind, settled.call.request, as[1], as[2])

C10_Witness ==
  /\ OperationEnded
  /\ settled.call.ret.tag = "recs"
  /\ Len(settled.call.ret.recs) > 0
  /\ settled.call.request.closet # <<>>

\* An adapter function called on its module has settled.
AdapterEnded == settled.call.entry = "adapter"
EmptyResult == AIResult("null", "null")
\* The backend answered, with neither an image nor a text.
EmptyAnswer(a) ==
  \/ a.t = "nocandidates"
  \/ a.t = "content" /\ ~a.image /\ ~a.text

C12_EmptyAnswerRejected ==
  (AdapterEnded /\ settled.call.request.fn = "generateOutfit"
     /\ EmptyAnswer(settled.call.answer))
    => settled.call.adapterOut.tag = "error"

\* The backend gave a description and no image: the last round trip of the
\* operation answered with a text part and without image data.
DescriptionOnly(k, a, a2) ==
  LET last == IF a2 = NoAnswer THEN a ELSE a2
  IN  /\ a.t = "content" /\ a.text
      /\ last.t = "content" /\ last.text /\ ~last.image

\* C13: whichever adapter, generateAndRecommendOutfit resolves with
\* {imageBase64: null, text: <description>} when the backend gives a
\* description and no image.
C13_DescriptionWithoutImageResolves ==
  (AdapterEnded /\ settled.call.request.fn = "generateAndRecommendOutfit"
     /\ DescriptionOnly(settled.call.service.kind, settled.call.answer,
                        settled.call.answer2))
    => /\ settled.call.adapterOut.tag = "AIResult"
       /\ settled.call.adapterOut.imageBase64 = "null"
       /\ settled.call.adapterOut.text # "null"

\* The backend answered (no transport failure).
Answered(a) == a # NoAnswer /\ ~Failed(a)
\* Its answer reads as a StyleRecommendation[].
ConformingList(a) == a.t = "content" /\ a.text /\ a.json = "list"

\* C14: whichever adapter, getStyleRecommendations rejects when the backend's
\* answer is not a parseable, schema-conforming list of recommendations; it
\* returns no empty array (nor anything else) for it.
C14_MalformedOutputRejected ==
  (AdapterEnded /\ settled.call.request.fn = "getStyleRecommendations"
     /\ Answered(settled.call.answer) /\ ~ConformingList(settled.call.answer))
    => settled.call.adapterOut.tag = "error"

\* C15: whichever adapter, generateClothingItem rejects when the backend's
\* answer holds no image, and never resolves with the empty string.
C15_NoImageRejected ==
  (AdapterEnded /\ settled.call.request.fn = "generateClothingItem") =>
    /\ settled.call.adapterOut # Base64("")
    /\ (Answered(settled.call.answer)
          /\ ~(settled.call.answer.t = "content" /\ settled.call.answer.image))
         => settled.call.adapterOut.tag = "error"

\* C16: getStyleRecommendations called with a closet of no or one item
\* rejects only for what the backend did (a transport failure, an answer that
\* does not parse), never for the closet; with a list from the backend, and
\* always in the mock, it returns a list.
C16_ShortClosetTolerated ==
  (AdapterEnded /\ settled.call.request.fn = "getStyleRecommendations"
     /\ Len(settled.call.request.closet) <= 1)
    => /\ settled.call.adapterOut.tag = "error" =>
            \/ Failed(settled.call.answer)
            \/ Answered(settled.call.answer) /\ ~ConformingList(settled.call.answer)
       /\ (settled.call.service.kind = "mock" \/ ConformingList(settled.call.answer))
            => settled.call.adapterOut.tag = "recs"

C16_Witness ==
  /\ AdapterEnded
  /\ settled.call.request.fn = "getStyleRecommendations"
  /\ Len(settled.call.request.closet) = 1
  /\ settled.call.service.kind = "mock"
  /\ settled.call.adapterOut.tag = "recs"
  /\ Len(settled.call.adapterOut.recs) > 0

\* C17: in a process whose preferred backend is mock, no facade call is ever
\* suspended at a probe or at the import of another adapter's module, no
\* adapter other than the mock is handed out or cached, and the operations
\* make no round trip to a backend.
C17_MockPreferenceStaysOffline ==
  ConfiguredService(env) = "mock" =>
    /\ \A c \in Callers :
         /\ call[c].pc # "probe"
         /\ call[c].pc = "import" => ModuleOf(call[c].configuredService) = "mock"
         /\ call[c].service.kind \in {"null", "mock"}
    /\ currentService.kind \in {"null", "mock"}
    /\ OperationEnded =>
         /\ settled.call.service.kind = "mock"
         /\ Answers(settled.call.service.kind, settled.call.request.fn)
              = {<<NoAnswer, NoAnswer>>}

C17_Witness ==
  /\ ConfiguredService(env) = "mock"
  /\ OperationEnded
  /\ settled.call.service.kind = "mock"
  /\ settled.call.ret.tag # "error"
  /\ currentService.kind = "mock"

\* C18: the connectivity test of either backend settles with a boolean and
\* never throws: a backend found unusable is reported as false.
C18_ProbeReportsBoolean ==
  \A rec \in {call[c] : c \in Callers} \cup {settled.call} :
    /\ rec.probed # "none" => rec.probeOut \in {"true", "false"}
    /\ rec.probed = "failed" => rec.probeOut = "false"

\* C19: the feedback map the caller of the facade getStyleRecommendations
\* supplies is the feedback map the adapter function receives.
C19_FeedbackReachesAdapter ==
  (OperationEnded /\ settled.call.request.fn = "getStyleRecommendations") =>
    settled.call.received.feedback = settled.call.request.feedback

\* The handler that ran last was given a recommendation naming an id that
\* no item of the closet has.
NamesMissingTop ==
  app.handled.recommendation.topId # 0
    /\ app.handled.recommendation.topId \notin 1..Len(app.closet)
NamesMissingBottom ==
  app.handled.recommendation.bottomId # 0
    /\ app.handled.recommendation.bottomId \notin 1..Len(app.closet)

\* C20 as claimed: an id of a recommendation that matches no item of the
\* closet gives an empty lookup, and the handler reports no error for it.
C20_MissingLookupNeverAnError ==
  (app.handled.handler \in {"select", "preview"}) =>
    /\ NamesMissingTop => app.handled.top = 0
    /\ NamesMissingBottom => app.handled.bottom = 0
    /\ (NamesMissingTop \/ NamesMissingBottom) =>
         IF app.handled.handler = "select"
           THEN app.error = "null"
           ELSE app.previewError # NoClothingFound

\* C20 as amended: the lookup of such an id is empty in both handlers;
\* handleRecommendationSelect leaves that selection empty and clears the
\* error; handlePreviewRecommendation goes on with the item it did find and
\* reports NoClothingFound, as the preview's error, exactly when it found
\* neither.
C20_MissingLookupIsNoMatch ==
  /\ (app.handled.handler \in {"select", "preview"}) =>
       /\ NamesMissingTop => app.handled.top = 0
       /\ NamesMissingBottom => app.handled.bottom = 0
  /\ app.handled.handler = "select" =>
       /\ app.selectedTop = app.handled.top
       /\ app.selectedBottom = app.handled.bottom
       /\ app.error = "null"
  /\ app.handled.handler = "preview" =>
       (app.previewError = NoClothingFound
          <=> (app.handled.top = 0 /\ app.handled.bottom = 0))

C20_Witness ==
  /\ app.handled.handler = "preview"
  /\ NamesMissingTop
  /\ app.handled.top = 0
  /\ app.handled.bottom # 0
  /\ app.previewOutfit = "outfit"

\* The call that ran last was loadClosetItems, right after a call of
\* saveClosetItems that reported success.
LoadedAfterSave ==
  /\ storage.last.op = "loadClosetItems"
  /\ storage.last.previous.op = "saveClosetItems"
  /\ storage.last.previous.success

Unavailable(st) == st.mode = "disabled" \/ ~checkStorageAvailability(st).value

\* C22: loadClosetItems never throws and always reports success; its data
\* is the empty list whenever storage is unavailable, the closet key is
\* absent, or what is stored does not parse or fails validation.
C22_LoadAlwaysSucceeds ==
  storage.last.op = "loadClosetItems" =>
    /\ ~storage.last.result.thrown
    /\ storage.last.result.success
    /\ (\/ Unavailable(storage.last.before)
        \/ storage.last.before.closet.kind = "absent"
        \/ ParseThrows(storage.last.before.closet)
        \/ ~validateStoredCloset(Parse(storage.last.before.closet)))
         => storage.last.result.data = <<>>

\* The availability check had passed earlier, storage throws now and holds
\* a closet: loadClosetItems ends in its catch block.
C22_Witness ==
  /\ storage.last.op = "loadClosetItems"
  /\ storage.last.before.isStorageAvailable = "true"
  /\ storage.last.before.mode = "disabled"
  /\ validateStoredCloset(storage.last.before.closet)
  /\ storage.last.before.closet.items # <<>>
  /\ storage.last.result = Success(<<>>)

\* The call that ran last, what loadClosetItems gave in the state it
\* started from, and the greatest id in that list.
LastCall == storage.last
ClosetBefore == loadClosetItems(storage.last.before).result.data
GreatestIdBefore ==
  IF ClosetBefore = <<>> THEN 0
  ELSE LET ids == {ClosetBefore[i].id.n : i \in DOMAIN ClosetBefore}
       IN  CHOOSE m \in ids : \A n \in ids : n <= m

\* C23: a successful addClosetItems returns and stores the existing items
\* unchanged, followed by the new items in their order, the k-th of them
\* with the id (greatest existing id) + k, or k when the closet was empty.
C23_AddNumbersAndAppends ==
  (LastCall.op = "addClosetItems" /\ LastCall.result.success) =>
    LET data == LastCall.result.data
        n == Len(ClosetBefore)
    IN  /\ Len(data) = n + Len(LastCall.items)
        /\ SubSeq(data, 1, n) = ClosetBefore
        /\ \A k \in DOMAIN LastCall.items :
             data[n + k] =
               [LastCall.items[k] EXCEPT !.id = Num(GreatestIdBefore + k)]
        /\ storage.st.closet.items = data

\* Two items were added to a closet whose greatest id is not its length.
C23_Witness ==
  /\ LastCall.op = "addClosetItems"
  /\ LastCall.result.success
  /\ Len(LastCall.items) = 2
  /\ ClosetBefore # <<>>
  /\ GreatestIdBefore # Len(ClosetBefore)
  /\ LastCall.result.data[Len(ClosetBefore) + 2].id = Num(GreatestIdBefore + 2)

\* What loadClosetItems gives in the present state; the items of the
\* closet before the last call that the call's itemId does not name.
ClosetNow == loadClosetItems(storage.st).result.data
OthersBefore == SelectSeq(ClosetBefore, LAMBDA item : item.id # LastCall.itemId)

\* The state allows a write: the availability check passes and setItem works.
Writable(st) == checkStorageAvailability(st).value /\ st.mode = "ok"

\* C24 as claimed: removeClosetItem(id) removes exactly the stored items
\* with that id and keeps the others in their order; when no item has the
\* id the closet is unchanged and the call still succeeds.
C24_RemoveExactlyAndSucceed ==
  LastCall.op = "removeClosetItem" =>
    /\ LastCall.result.success =>
         /\ LastCall.result.data = OthersBefore
         /\ ClosetNow = OthersBefore
    /\ OthersBefore = ClosetBefore =>
         /\ LastCall.result.success
         /\ ClosetNow = ClosetBefore

\* C24 as amended: the call succeeds exactly when storage can be written;
\* then it has removed exactly the items with that id, which is no change
\* when no item has it; otherwise it reports failure and the closet is as
\* it was.
C24_RemoveExactlyWhenWritable ==
  LastCall.op = "removeClosetItem" =>
    /\ LastCall.result.success <=> Writable(LastCall.before)
    /\ LastCall.result.success =>
         /\ LastCall.result.data = OthersBefore
         /\ ClosetNow = OthersBefore
    /\ ~LastCall.result.success => ClosetNow = ClosetBefore

\* An item was removed and another, listed before it, was kept.
C24_Witness ==
  /\ LastCall.op = "removeClosetItem"
  /\ LastCall.result.success
  /\ Len(ClosetBefore) >= 2
  /\ ClosetBefore[1].id # LastCall.itemId
  /\ LastCall.result.data = <<ClosetBefore[1]>>
  /\ ClosetNow = <<ClosetBefore[1]>>

\* C25: between two resets of the availability cache the probe of
\* localStorage runs at most once; every call that checks availability
\* after it gets the first result from the cache and runs no probe.
C25_ProbeAtMostOncePerReset ==
  /\ storage.st.probes <= 1
  /\ (/\ LastCall.op \notin {"none", "resetStorageAvailabilityCache"}
      /\ LastCall.before.isStorageAvailable # "null") =>
       /\ ~LastCall.probed
       /\ storage.st.probes = LastCall.before.probes
       /\ storage.st.isStorageAvailable = LastCall.before.isStorageAvailable
  /\ (/\ LastCall.op = "checkStorageAvailability"
      /\ LastCall.before.isStorageAvailable # "null") =>
       (LastCall.result.success <=> LastCall.before.isStorageAvailable = "true")

\* The probe had failed; storage works again; the check still says false
\* and runs no probe.
C25_Witness ==
  /\ LastCall.op = "checkStorageAvailability"
  /\ LastCall.before.isStorageAvailable = "false"
  /\ LastCall.before.mode = "ok"
  /\ ~LastCall.probed
  /\ ~LastCall.result.success
  /\ storage.st.probes = 1

\* C26: whenever an adapter is cached, getServiceType() reports the kind of
\* that adapter, in every reachable state, with selections interleaved.
C26_ServiceTypeIsKindOfCache ==
  currentService # NULL => getServiceType = currentService.kind

\* The mock adapter is cached after a fallback from another preference
\* while a second selection is still in flight.
C26_Witness ==
  /\ currentService # NULL
  /\ currentService.kind = "mock"
  /\ getServiceType = "mock"
  /\ ConfiguredService(env) \in {"gemini-direct", "vertex-ai"}
  /\ settled.call.cause # "none"
  /\ \E c \in Callers : call[c].pc \in {"import", "probe", "importMock"}

\* C27: once switchService(k) has resolved, and until switchService is
\* called again, the cached adapter is of kind k or is the mock fallback,
\* also when other selections were in flight while the switch ran.
C27_SwitchDecidesTheCache ==
  lastSwitch # "none" =>
    /\ currentService # NULL
    /\ currentService.kind \in {lastSwitch, "mock"}

\* C28: whenever getServiceInfo reports status 'Connected', the type it
\* reports is the kind of the adapter cached at the moment it returns, the
\* first call in a process included.
C28_ConnectedTypeIsCachedKind ==
  (settled.call.entry = "getServiceInfo" /\ settled.call.status = "Connected") =>
    /\ currentService # NULL
    /\ settled.call.type = currentService.kind

\* C29: after any sequence of addClosetItems and removeClosetItem calls
\* that starts from an empty closet, the stored items have pairwise
\* distinct ids.
C29_StoredIdsDistinct ==
  LET items == storage.st.closet.items
  IN  \A i, j \in DOMAIN items : i # j => items[i].id # items[j].id

\* An item was added after a removal had left the greatest id above the
\* number of items.
C29_Witness ==
  /\ LastCall.op = "addClosetItems"
  /\ LastCall.result.success
  /\ ClosetBefore # <<>>
  /\ GreatestIdBefore > Len(ClosetBefore)
  /\ Len(storage.st.closet.items) = Len(ClosetBefore) + Len(LastCall.items)
  /\ Len(LastCall.items) >= 1

\* C30: a successful addClosetItems loses no stored item: every item that
\* loadClosetItems gave before the call is given by the next
\* loadClosetItems after it.
C30_AddLosesNothing ==
  (/\ LastCall.op = "loadClosetItems"
   /\ LastCall.previous.op = "addClosetItems"
   /\ LastCall.previous.success) =>
    \A i \in DOMAIN LastCall.previous.was :
      \E j \in DOMAIN LastCall.result.data :
        LastCall.result.data[j] = LastCall.previous.was[i]

====
